---- MODULE Spec2Model ----
(***************************************************************************)
(* Model of the event synchronization layer of the listing platform:       *)
(* the Supabase webhook receiver                                           *)
(* (packages/api-server/src/routes/webhooks/supabase.ts) and the search    *)
(* adapter it calls (packages/@listing-platform/search/src/sync.ts).       *)
(*                                                                         *)
(* One delivery of a webhook is one run of the POST handler.  The handler  *)
(* is a JavaScript async function: it runs without interruption between    *)
(* two network awaits, so the model has one action for each such segment:  *)
(*   Post          from the arrival of the request to its first network    *)
(*                 call (or to its answer, when it makes none);            *)
(*   SearchReturn  from the answer of the search engine to the             *)
(*                 revalidation request (or to the answer);                *)
(*   FetchReturn   from the answer of the revalidation endpoint to the     *)
(*                 answer of the handler.                                  *)
(* Tick lets the wall clock (Date.now()) advance between segments, and     *)
(* OtherTraffic fills the ledger with the entries of other events, so that *)
(* the cleanup of markEventProcessed takes place.                          *)
(*                                                                         *)
(* The awaits that never leave the process (the dynamic import of the      *)
(* search package, the return of an async function) are merged into the    *)
(* segment that follows them.                                              *)
(*                                                                         *)
(* Spec is the receiver with all of the above.  SpecLive is the receiver   *)
(* with the answer of a downstream system (SearchAnswer, FetchAnswer) kept *)
(* apart from the continuation the event loop then runs (SearchResume,     *)
(* FetchResume), for the questions of termination.  SpecBulk is one call   *)
(* of syncListings of the search adapter (SyncListings, ImportReturn).     *)
(* SpecSeq is the receiver with the events of one listing delivered one at *)
(* a time, each acknowledged before the next arrives, and no downstream    *)
(* call failing.  SpecRemove is a series of calls of deleteListing.         *)
(* SpecDoc applies transformToDocument to a listing row.  SpecReindex is   *)
(* the reindex route of packages/api-server/src/routes/search.ts.          *)
(***************************************************************************)
EXTENDS Integers, Sequences, FiniteSets, TLC

\* ------------------------------------------------------------ bounds
\* Number of webhook deliveries in one behaviour.
MaxDeliveries == 2
\* Number of times the clock advances in one behaviour.
MaxTicks == 1
\* Largest number of rows in one bulk sync.
MaxRows == 3
\* Number of deliveries, and of clock advances, in one behaviour of SpecSeq.
MaxSeq == 3
MaxSeqTicks == 2
\* Number of calls of deleteListing in one behaviour of SpecRemove.
MaxRemovals == 3
\* Number of reindex requests in one behaviour of SpecReindex.
MaxReindex == 2

Deliveries == 1..MaxDeliveries

\* ------------------------------------------------------- program constants
\* const IDEMPOTENCY_TTL = 5 * 60 * 1000; // 5 minutes
IDEMPOTENCY_TTL == 5 * 60 * 1000
\* if (processedEvents.size > 10000)
CLEANUP_SIZE == 10000
\* Byte length of a hex-encoded SHA-256 digest (digest('hex')).
HexDigestLength == 64
\* The clock advances by the TTL, or by a millisecond less or more, so that
\* entries aged just under, exactly and just over the TTL all occur.
ClockSteps == {IDEMPOTENCY_TTL - 1, IDEMPOTENCY_TTL, IDEMPOTENCY_TTL + 1}

\* ------------------------------------------------------------ payloads
\* A row snapshot (record / old_record): null, or an object with the columns
\* the handler reads.  A missing or empty column is "".
Row(id, status, slug) == [isNull |-> FALSE, id |-> id, status |-> status, slug |-> slug]
NullRow == [isNull |-> TRUE, id |-> "", status |-> "", slug |-> ""]

\* What JSON.parse gives for a body: the JSON value.  json is "null" for the
\* JSON null, "scalar" for a number, string or boolean, "object" for an
\* object, whose fields follow; an absent field is "".
Obj(table, type, record, old) ==
    [json |-> "object", table |-> table, type |-> type, record |-> record, old_record |-> old]
NonObj(kind) ==
    [json |-> kind, table |-> "", type |-> "", record |-> NullRow, old_record |-> NullRow]

Published == Row("l1", "published", "acme-widget")
Draft     == Row("l1", "draft", "acme-widget")
Renamed   == Row("l1", "published", "")
OldRow    == Row("l1", "published", "old-widget")
Term      == Row("t1", "", "cars")
TermBare  == Row("t1", "", "")

Payloads ==
    { NonObj("null"), NonObj("scalar"),
      Obj("", "", NullRow, NullRow),
      Obj("foo_bar", "INSERT", Published, NullRow),
      Obj("listings", "INSERT", Published, NullRow),
      Obj("listings", "UPDATE", Draft, OldRow),
      Obj("listings", "UPDATE", Renamed, OldRow),
      Obj("listings", "DELETE", NullRow, Published),
      Obj("listings", "INSERT", NullRow, NullRow),
      Obj("listings", "DELETE", NullRow, NullRow),
      Obj("taxonomy_terms", "INSERT", Term, NullRow),
      Obj("taxonomy_terms", "UPDATE", TermBare, Term),
      Obj("taxonomy_terms", "DELETE", NullRow, Term) }

\* A raw request body: the text of a JSON value (text = "json", with
\* insignificant whitespace ws), or text that is no JSON at all.
Body(text, value, ws) == [text |-> text, value |-> value, ws |-> ws]
NotJson == Body("garbage", NonObj("null"), 0)
Bodies ==
    { Body("json", p, 0) : p \in Payloads }
    \cup { Body("json", Obj("listings", "INSERT", Published, NullRow), 1) }
    \cup { NotJson }

\* ---------------------------------------------------------- signatures
\* A header value: its byte length and, for a hex HMAC digest, the key and
\* the message it was computed from (HMAC-SHA256 is modelled as injective).
Hmac(key, message) == [len |-> HexDigestLength, key |-> key, msg |-> message]
NoSignature  == [len |-> 0, key |-> "", msg |-> NotJson]
ShortSignature == [len |-> 10, key |-> "", msg |-> NotJson]
WebhookSecret == "whsec"
SignaturesFor(body) ==
    { NoSignature, ShortSignature, Hmac(WebhookSecret, body), Hmac("other-key", body) }

\* --------------------------------------------------------------- state
VARIABLES
    env,              \* process.env: which settings are present
    now,              \* Date.now()
    ticks,            \* how many times the clock has advanced
    processedEvents,  \* the Map of line 21: known: event id -> time, for the
                      \* events of Payloads; rest: time -> number of entries
                      \* of other events processed at that time
    index,            \* ids of the documents in the search collection
    req,              \* one record per delivery: the handler's position,
                      \* its input, what it has called and its answer
    bulk,             \* the one call of syncListings: its position, the
                      \* rows it was given, what the engine said of each,
                      \* and the counts it returned
    removal,          \* the calls of deleteListing: the one under way and
                      \* the log of those that ended
    doc,              \* a listing row and the document transformToDocument
                      \* makes of it
    collection,       \* whether the search collection exists
    reindex           \* the reindex requests: the position of the one under
                      \* way, the calls it has made and its answer

vars == <<env, now, ticks, processedEvents, index, req, bulk, removal, doc, collection, reindex>>

NoCall == [op |-> "none", id |-> ""]

\* A delivery that has not arrived yet.
IdleReq ==
    [ pc |-> "idle", body |-> NotJson, sig |-> NoSignature,
      arrivedAt |-> 0,   \* the time of arrival; kept by SpecSeq alone
      ledgerRead |-> FALSE, timestamp |-> 0, duplicate |-> FALSE,
      search |-> NoCall, searchOutcome |-> "none", searchCalls |-> 0,
      invalidation |-> << >>, fetchOutcome |-> "none", fetchCalls |-> 0,
      status |-> 0, success |-> FALSE, text |-> "", markedAt |-> 0 ]

\* Faulty variant: one of the two search settings is enough.
typesenseEnabled_Either == env.TYPESENSE_API_KEY \/ env.TYPESENSE_HOST

\* const typesenseEnabled = process.env.TYPESENSE_API_KEY && process.env.TYPESENSE_HOST;
typesenseEnabled == env.TYPESENSE_API_KEY /\ env.TYPESENSE_HOST
\* if (portalRevalidateUrl && revalidationSecret)
revalidationEnabled == env.PORTAL_REVALIDATE_URL /\ env.REVALIDATION_SECRET

\* ------------------------------------------------- the idempotency ledger
\* crypto.createHmac('sha256', secret).update(payload).digest('hex'), then
\* crypto.timingSafeEqual, which throws a RangeError when its two buffers
\* differ in byte length.
verifySignature(payload, signature, secret) ==
    LET expectedSignature == Hmac(secret, payload)
    IN  IF signature.len # expectedSignature.len THEN "throw"
        ELSE IF signature = expectedSignature THEN "true" ELSE "false"

\* JSON.parse(rawBody): the value of the text, whitespace gone.
JsonParse(rawBody) == rawBody.value

\* md5 of JSON.stringify(payload), modelled as injective on parsed values.
generateEventId(payload) == [md5 |-> payload]

\* processedEvents.get(eventId): 0 stands for undefined.
MapGet(map, eventId) == IF eventId \in DOMAIN map.known THEN map.known[eventId] ELSE 0

RECURSIVE SumOver(_, _)
SumOver(f, keys) ==
    IF keys = {} THEN 0
    ELSE LET k == CHOOSE x \in keys : TRUE IN f[k] + SumOver(f, keys \ {k})

\* processedEvents.size
MapSize(map) == Cardinality(DOMAIN map.known) + SumOver(map.rest, DOMAIN map.rest)

\* Faulty variant: the comparison with the TTL the wrong way round.
isEventProcessed_Inverted(map, eventId) ==
    LET timestamp == MapGet(map, eventId)
    IN  timestamp # 0 /\ now - timestamp > IDEMPOTENCY_TTL

\* Faulty variant: an entry exactly IDEMPOTENCY_TTL old still counts.
isEventProcessed_Inclusive(map, eventId) ==
    LET timestamp == MapGet(map, eventId)
    IN  timestamp # 0 /\ now - timestamp <= IDEMPOTENCY_TTL

isEventProcessed(map, eventId) ==
    LET timestamp == MapGet(map, eventId)
    IN  timestamp # 0 /\ now - timestamp < IDEMPOTENCY_TTL

\* The cleanup loop of lines 58-63.
Cleanup(map) ==
    [ known |-> [id \in {k \in DOMAIN map.known : ~(now - map.known[k] > IDEMPOTENCY_TTL)}
                    |-> map.known[id]],
      rest  |-> [t \in {k \in DOMAIN map.rest : ~(now - k > IDEMPOTENCY_TTL)}
                    |-> map.rest[t]] ]

\* Faulty variant: the cleanup runs at every insert, whatever the size.
markEventProcessed_SweepAlways(map, eventId) ==
    LET set == [ map EXCEPT !.known =
                   [id \in DOMAIN map.known \cup {eventId} |->
                       IF id = eventId THEN now ELSE map.known[id]] ]
    IN  Cleanup(set)

\* processedEvents.set(eventId, Date.now()), then the cleanup when the Map
\* holds more than CLEANUP_SIZE entries.
markEventProcessed(map, eventId) ==
    LET set == [ map EXCEPT !.known =
                   [id \in DOMAIN map.known \cup {eventId} |->
                       IF id = eventId THEN now ELSE map.known[id]] ]
    IN  IF MapSize(set) > CLEANUP_SIZE THEN Cleanup(set) ELSE set

\* ------------------------------------------------------ the dispatcher
\* The handler's state while it runs: h.q is the delivery's record, h.map the
\* Map processedEvents as the handler leaves it.

\* c.json(body, status)
Respond(h, status, success, text) ==
    [h EXCEPT !.q.pc = "done", !.q.status = status, !.q.success = success, !.q.text = text]

\* markEventProcessed(eventId); return c.json({ success: true });
Acknowledge(h) ==
    LET eventId == generateEventId(JsonParse(h.q.body))
    IN  Respond([h EXCEPT !.map = markEventProcessed(h.map, eventId), !.q.markedAt = now],
                200, TRUE, "")

\* Faulty variant: an unpublished record is skipped instead of removed.
SearchCallFor_PublishedOnly(payload) ==
    LET record == payload.record
        oldRecord == payload.old_record
    IN  CASE payload.type \in {"INSERT", "UPDATE"} ->
                IF ~record.isNull /\ record.status = "published"
                THEN [op |-> "upsert", id |-> record.id]
                ELSE NoCall
          [] payload.type = "DELETE" ->
                IF ~oldRecord.isNull THEN [op |-> "delete", id |-> oldRecord.id] ELSE NoCall
          [] OTHER -> NoCall

\* Faulty variant: the DELETE branch reads record, which is null on a DELETE.
SearchCallFor_DeleteReadsRecord(payload) ==
    LET record == payload.record
    IN  CASE payload.type \in {"INSERT", "UPDATE"} ->
                IF ~record.isNull
                THEN IF record.status = "published"
                     THEN [op |-> "upsert", id |-> record.id]
                     ELSE [op |-> "delete", id |-> record.id]
                ELSE NoCall
          [] payload.type = "DELETE" ->
                IF ~record.isNull THEN [op |-> "delete", id |-> record.id] ELSE NoCall
          [] OTHER -> NoCall

\* The switch on payload.type of handleListingEvent: the one call it makes to
\* the search adapter.
SearchCallFor(payload) ==
    LET record == payload.record
        oldRecord == payload.old_record
    IN  CASE payload.type \in {"INSERT", "UPDATE"} ->
                IF ~record.isNull
                THEN IF record.status = "published"
                     THEN [op |-> "upsert", id |-> record.id]
                     ELSE [op |-> "delete", id |-> record.id]
                ELSE NoCall
          [] payload.type = "DELETE" ->
                IF ~oldRecord.isNull THEN [op |-> "delete", id |-> oldRecord.id] ELSE NoCall
          [] OTHER -> NoCall

\* Faulty variant: the slug is read from record alone.
ListingPaths_RecordOnly(payload) ==
    LET slug == payload.record.slug
    IN  <<"/listings", "/">> \o (IF slug # "" THEN <<"/listings/" \o slug>> ELSE << >>)

\* const slug = (record?.slug || oldRecord?.slug); paths = ['/listings', '/'] ...
ListingPaths(payload) ==
    LET slug == IF payload.record.slug # "" THEN payload.record.slug
                ELSE payload.old_record.slug
    IN  <<"/listings", "/">> \o (IF slug # "" THEN <<"/listings/" \o slug>> ELSE << >>)

\* const record = payload.record || payload.old_record; const slug = record?.slug
TaxonomyPaths(payload) ==
    LET record == IF ~payload.record.isNull THEN payload.record ELSE payload.old_record
        slug == record.slug
    IN  <<"/categories">> \o (IF slug # "" THEN <<"/categories/" \o slug>> ELSE << >>)

\* The revalidation block: the fetch is issued and awaited; without the two
\* settings the handler returns and the event is acknowledged.
Revalidate(h, paths) ==
    IF revalidationEnabled
    THEN [h EXCEPT !.q.pc = "fetch", !.q.invalidation = paths, !.q.fetchOutcome = "pending",
                   !.q.fetchCalls = @ + 1]
    ELSE Acknowledge(h)

\* Faulty variant: the revalidation request is sent without awaiting the
\* search call.
handleListingEvent_Unawaited(h, payload) ==
    LET call == SearchCallFor(payload)
    IN  IF typesenseEnabled /\ call.op # "none"
        THEN [h EXCEPT !.q.pc = "search", !.q.search = call, !.q.searchOutcome = "pending",
                       !.q.searchCalls = @ + 1,
                       !.q.invalidation = IF revalidationEnabled THEN ListingPaths(payload)
                                          ELSE << >>,
                       !.q.fetchOutcome = IF revalidationEnabled THEN "pending" ELSE "none"]
        ELSE Revalidate(h, ListingPaths(payload))

\* handleListingEvent up to its first await on the network.
handleListingEvent(h, payload) ==
    LET call == SearchCallFor(payload)
    IN  IF typesenseEnabled /\ call.op # "none"
        THEN [h EXCEPT !.q.pc = "search", !.q.search = call, !.q.searchOutcome = "pending",
                       !.q.searchCalls = @ + 1]
        ELSE Revalidate(h, ListingPaths(payload))

\* handleTaxonomyEvent up to its await on the network.
handleTaxonomyEvent(h, payload) == Revalidate(h, TaxonomyPaths(payload))

\* Faulty variant: the default branch returns without marking the event.
Dispatch_DefaultUnmarked(h) ==
    LET payload == JsonParse(h.q.body)
    IN  IF payload.json = "null" THEN Respond(h, 500, FALSE, "Processing failed")
        ELSE CASE payload.table = "listings" -> handleListingEvent(h, payload)
               [] payload.table = "taxonomy_terms" -> handleTaxonomyEvent(h, payload)
               [] OTHER -> Respond(h, 200, TRUE, "")

\* The try block of the POST handler.  Reading payload.table of the JSON
\* null throws a TypeError, caught by the catch of line 129.
Dispatch(h) ==
    LET payload == JsonParse(h.q.body)
    IN  IF payload.json = "null" THEN Respond(h, 500, FALSE, "Processing failed")
        ELSE CASE payload.table = "listings" -> handleListingEvent(h, payload)
               [] payload.table = "taxonomy_terms" -> handleTaxonomyEvent(h, payload)
               [] OTHER -> Acknowledge(h)

\* Faulty variant: the event is marked when it is checked, before its
\* dispatch.
IdempotencyStage_MarkFirst(h) ==
    LET eventId == generateEventId(JsonParse(h.q.body))
        read == [h EXCEPT !.q.ledgerRead = TRUE, !.q.timestamp = MapGet(h.map, eventId)]
    IN  IF isEventProcessed(h.map, eventId)
        THEN Respond([read EXCEPT !.q.duplicate = TRUE], 200, TRUE, "Event already processed")
        ELSE Dispatch([read EXCEPT !.map = markEventProcessed(h.map, eventId)])

\* Faulty variant: a duplicate renews the time of its entry.
IdempotencyStage_Refresh(h) ==
    LET eventId == generateEventId(JsonParse(h.q.body))
        read == [h EXCEPT !.q.ledgerRead = TRUE, !.q.timestamp = MapGet(h.map, eventId)]
    IN  IF isEventProcessed(h.map, eventId)
        THEN Respond([read EXCEPT !.q.duplicate = TRUE,
                                  !.map.known = [h.map.known EXCEPT ![eventId] = now]],
                     200, TRUE, "Event already processed")
        ELSE Dispatch(read)

\* Check idempotency.
IdempotencyStage(h) ==
    LET eventId == generateEventId(JsonParse(h.q.body))
        read == [h EXCEPT !.q.ledgerRead = TRUE, !.q.timestamp = MapGet(h.map, eventId)]
    IN  IF isEventProcessed(h.map, eventId)
        THEN Respond([read EXCEPT !.q.duplicate = TRUE], 200, TRUE, "Event already processed")
        ELSE Dispatch(read)

\* Faulty variant: no catch around JSON.parse; the SyntaxError is caught by nothing.
ParseStage_NoCatch(h) ==
    IF h.q.body.text # "json" THEN Respond(h, 500, FALSE, "Internal Server Error")
    ELSE IdempotencyStage(h)

\* payload = JSON.parse(rawBody), or 400.
ParseStage(h) ==
    IF h.q.body.text # "json" THEN Respond(h, 400, FALSE, "Invalid JSON")
    ELSE IdempotencyStage(h)

\* Faulty variant: with a secret set, a request without the header is
\* rejected.
VerifyStage_HeaderRequired(h) ==
    LET secret == env.SUPABASE_WEBHOOK_SECRET
        signature == h.q.sig
        verdict == IF secret # "" /\ signature.len # 0
                   THEN verifySignature(h.q.body, signature, secret)
                   ELSE IF secret # "" THEN "false" ELSE "skipped"
    IN  CASE verdict = "throw" -> Respond(h, 500, FALSE, "Internal Server Error")
          [] verdict = "false" -> Respond(h, 401, FALSE, "Invalid signature")
          [] OTHER -> ParseStage(h)

\* Faulty variant: the header is verified whether or not a secret is set.
VerifyStage_SecretIgnored(h) ==
    LET secret == env.SUPABASE_WEBHOOK_SECRET
        signature == h.q.sig
        verdict == IF signature.len # 0
                   THEN verifySignature(h.q.body, signature, secret)
                   ELSE "skipped"
    IN  CASE verdict = "throw" -> Respond(h, 500, FALSE, "Internal Server Error")
          [] verdict = "false" -> Respond(h, 401, FALSE, "Invalid signature")
          [] OTHER -> ParseStage(h)

\* Verify signature if secret is configured.  An exception of verifySignature
\* is caught by nothing in the handler: the request ends in the framework's
\* error handler, which answers 500.
VerifyStage(h) ==
    LET secret == env.SUPABASE_WEBHOOK_SECRET
        signature == h.q.sig
        verdict == IF secret # "" /\ signature.len # 0
                   THEN verifySignature(h.q.body, signature, secret)
                   ELSE "skipped"
    IN  CASE verdict = "throw" -> Respond(h, 500, FALSE, "Internal Server Error")
          [] verdict = "false" -> Respond(h, 401, FALSE, "Invalid signature")
          [] OTHER -> ParseStage(h)

\* Faulty variant: no catch around the search call; its exception reaches the catch
\* of the POST handler.
AfterSearch_Rethrow(h, outcome) ==
    IF outcome = "error"
    THEN Respond([h EXCEPT !.q.searchOutcome = outcome], 500, FALSE, "Processing failed")
    ELSE Revalidate([h EXCEPT !.q.searchOutcome = outcome], ListingPaths(JsonParse(h.q.body)))

\* The catch of handleListingEvent around the search call, then the
\* revalidation block.
AfterSearch(h, outcome) ==
    Revalidate([h EXCEPT !.q.searchOutcome = outcome], ListingPaths(JsonParse(h.q.body)))

\* Faulty variant: a rejected fetch is sent once more.
AfterFetch_Retry(h, outcome) ==
    IF outcome = "rejected" /\ h.q.fetchCalls < 2
    THEN [h EXCEPT !.q.fetchOutcome = "pending", !.q.fetchCalls = @ + 1]
    ELSE Acknowledge([h EXCEPT !.q.fetchOutcome = outcome])

\* The catch around the fetch, then the return to the POST handler.
AfterFetch(h, outcome) == Acknowledge([h EXCEPT !.q.fetchOutcome = outcome])

\* -------------------------------------------------------------- actions
\* The settings of the deployment, as process.env holds them.
EnvOf(secret, key, host, url, revalidationSecret) ==
    [ SUPABASE_WEBHOOK_SECRET |-> secret,
      TYPESENSE_API_KEY |-> key, TYPESENSE_HOST |-> host,
      PORTAL_REVALIDATE_URL |-> url, REVALIDATION_SECRET |-> revalidationSecret ]
Envs ==
    { EnvOf(WebhookSecret, TRUE, TRUE, TRUE, TRUE),
      EnvOf(WebhookSecret, TRUE, FALSE, TRUE, TRUE),
      EnvOf(WebhookSecret, TRUE, TRUE, TRUE, FALSE),
      EnvOf("", FALSE, TRUE, FALSE, TRUE),
      EnvOf("", FALSE, FALSE, FALSE, FALSE) }

ListingIds == {"l1"}

\* The ids of the listings given to the search adapter directly.
BulkIds == {"l1", "l2"}

\* No deleteListing has been called.
IdleRemoval == [pc |-> "idle", id |-> "", log |-> << >>]
\* No row has been given to transformToDocument.
NoDoc == [pc |-> "none"]
\* No reindex has been requested.
IdleReindex ==
    [ pc |-> "idle", requests |-> 0, calls |-> << >>, listings |-> << >>, status |-> 0,
      previous |-> << >> ]

\* No bulk sync has been called.
IdleBulk ==
    [ pc |-> "idle", rows |-> << >>, answered |-> FALSE, verdicts |-> << >>,
      success |-> 0, failed |-> 0 ]

Init ==
    /\ env \in Envs
    /\ now = 1
    /\ ticks = 0
    /\ processedEvents = [known |-> << >>, rest |-> << >>]
    /\ index = {}
    /\ req = [r \in Deliveries |-> IdleReq]
    /\ bulk = IdleBulk
    /\ removal = IdleRemoval
    /\ doc = NoDoc
    /\ collection = FALSE
    /\ reindex = IdleReindex

\* A delivery arrives and the handler runs to its first network call.
Post(r, body, sig) ==
    /\ req[r].pc = "idle"
    /\ \A s \in Deliveries : s < r => req[s].pc # "idle"
    /\ LET h == VerifyStage([ q |-> [IdleReq EXCEPT !.body = body, !.sig = sig],
                              map |-> processedEvents ])
       IN  /\ req' = [req EXCEPT ![r] = h.q]
           /\ processedEvents' = h.map
    /\ UNCHANGED <<env, now, ticks, index, bulk, removal, doc, collection, reindex>>

\* Faulty variant: the writes of one listing are kept in the order of
\* arrival of their events: the write of an event is dropped when a later
\* event of the same listing has already written.
SearchReturn_Ordered(r, failed) ==
    /\ req[r].pc = "search"
    /\ LET call == req[r].search
           overtaken == \E s \in DOMAIN req :
                            /\ s > r /\ req[s].search.id = call.id
                            /\ req[s].searchOutcome \in {"ok", "notfound"}
           outcome == IF failed THEN "error"
                      ELSE IF call.op = "delete" /\ call.id \notin index THEN "notfound"
                      ELSE "ok"
           h == AfterSearch([q |-> req[r], map |-> processedEvents], outcome)
       IN  /\ index' = IF outcome # "ok" \/ overtaken THEN index
                       ELSE IF call.op = "upsert" THEN index \cup {call.id}
                       ELSE index \ {call.id}
           /\ req' = [req EXCEPT ![r] = h.q]
           /\ processedEvents' = h.map
    /\ UNCHANGED <<env, now, ticks, bulk, removal, doc, collection, reindex>>

\* The search engine answers the call of delivery r (syncListing or
\* deleteListing returns or throws).  deleteListing swallows a 404.
SearchReturn(r, failed) ==
    /\ req[r].pc = "search"
    /\ LET call == req[r].search
           outcome == IF failed THEN "error"
                      ELSE IF call.op = "delete" /\ call.id \notin index THEN "notfound"
                      ELSE "ok"
           h == AfterSearch([q |-> req[r], map |-> processedEvents], outcome)
       IN  /\ index' = IF outcome # "ok" THEN index
                       ELSE IF call.op = "upsert" THEN index \cup {call.id}
                       ELSE index \ {call.id}
           /\ req' = [req EXCEPT ![r] = h.q]
           /\ processedEvents' = h.map
    /\ UNCHANGED <<env, now, ticks, bulk, removal, doc, collection, reindex>>

\* The revalidation endpoint answers (any HTTP status), or the fetch rejects.
FetchReturn(r, rejected) ==
    /\ req[r].pc = "fetch"
    /\ LET h == AfterFetch([q |-> req[r], map |-> processedEvents],
                           IF rejected THEN "rejected" ELSE "resolved")
       IN  /\ req' = [req EXCEPT ![r] = h.q]
           /\ processedEvents' = h.map
    /\ UNCHANGED <<env, now, ticks, index, bulk, removal, doc, collection, reindex>>

\* Time passes.
Tick(d) ==
    /\ ticks < MaxTicks
    /\ now' = now + d
    /\ ticks' = ticks + 1
    /\ UNCHANGED <<env, processedEvents, index, req, bulk, removal, doc, collection, reindex>>

\* CLEANUP_SIZE deliveries of distinct events of tables the handler does not
\* know, within one millisecond: each is acknowledged by the default branch
\* of the switch, which marks it processed.
OtherTraffic ==
    /\ DOMAIN processedEvents.rest = {}
    /\ LET added == [processedEvents EXCEPT !.rest = (now :> CLEANUP_SIZE)]
       IN  processedEvents' = IF MapSize(added) > CLEANUP_SIZE THEN Cleanup(added) ELSE added
    /\ UNCHANGED <<env, now, ticks, index, req, bulk, removal, doc, collection, reindex>>

Next ==
    \/ \E r \in Deliveries, body \in Bodies : \E sig \in SignaturesFor(body) : Post(r, body, sig)
    \/ \E r \in Deliveries, failed \in BOOLEAN : SearchReturn(r, failed)
    \/ \E r \in Deliveries, rejected \in BOOLEAN : FetchReturn(r, rejected)
    \/ \E d \in ClockSteps : Tick(d)
    \/ OtherTraffic

Spec == Init /\ [][Next]_vars

\* ------------------------------------------------- termination (SpecLive)
\* The search engine answers the call of delivery r: the promise of
\* syncListing / deleteListing settles.  Neither the handler nor sync.ts
\* arms a timer on the call, so the step is the downstream system's alone.
SearchAnswer(r, failed) ==
    /\ req[r].pc = "search" /\ req[r].searchOutcome = "pending"
    /\ LET call == req[r].search
           outcome == IF failed THEN "error"
                      ELSE IF call.op = "delete" /\ call.id \notin index THEN "notfound"
                      ELSE "ok"
       IN  /\ index' = IF outcome # "ok" THEN index
                       ELSE IF call.op = "upsert" THEN index \cup {call.id}
                       ELSE index \ {call.id}
           /\ req' = [req EXCEPT ![r].searchOutcome = outcome]
    /\ UNCHANGED <<env, now, ticks, processedEvents, bulk, removal, doc, collection, reindex>>

\* The event loop runs the continuation of the settled search call.
SearchResume(r) ==
    /\ req[r].pc = "search" /\ req[r].searchOutcome # "pending"
    /\ LET h == AfterSearch([q |-> req[r], map |-> processedEvents], req[r].searchOutcome)
       IN  /\ req' = [req EXCEPT ![r] = h.q]
           /\ processedEvents' = h.map
    /\ UNCHANGED <<env, now, ticks, index, bulk, removal, doc, collection, reindex>>

\* The revalidation endpoint answers the fetch of delivery r, or the fetch
\* rejects.  The fetch of lines 186-194 is given no signal and no timeout.
FetchAnswer(r, rejected) ==
    /\ req[r].pc = "fetch" /\ req[r].fetchOutcome = "pending"
    /\ req' = [req EXCEPT ![r].fetchOutcome = IF rejected THEN "rejected" ELSE "resolved"]
    /\ UNCHANGED <<env, now, ticks, processedEvents, index, bulk, removal, doc, collection, reindex>>

\* The event loop runs the continuation of the settled fetch.
FetchResume(r) ==
    /\ req[r].pc = "fetch" /\ req[r].fetchOutcome # "pending"
    /\ LET h == AfterFetch([q |-> req[r], map |-> processedEvents], req[r].fetchOutcome)
       IN  /\ req' = [req EXCEPT ![r] = h.q]
           /\ processedEvents' = h.map
    /\ UNCHANGED <<env, now, ticks, index, bulk, removal, doc, collection, reindex>>

NextLive ==
    \/ \E r \in Deliveries, body \in Bodies : \E sig \in SignaturesFor(body) : Post(r, body, sig)
    \/ \E r \in Deliveries, failed \in BOOLEAN : SearchAnswer(r, failed)
    \/ \E r \in Deliveries : SearchResume(r)
    \/ \E r \in Deliveries, rejected \in BOOLEAN : FetchAnswer(r, rejected)
    \/ \E r \in Deliveries : FetchResume(r)

\* What the event loop guarantees: a continuation whose promise has settled
\* is run.  That a downstream call settles at all is guaranteed by nothing
\* in the code.
LiveFairness ==
    \A r \in Deliveries : WF_vars(SearchResume(r)) /\ WF_vars(FetchResume(r))

InitLive == Init /\ typesenseEnabled /\ revalidationEnabled

SpecLive == InitLive /\ [][NextLive]_vars /\ LiveFairness

\* ------------------------------------------------ one at a time (SpecSeq)
SeqDeliveries == 1..MaxSeq
\* Short and long waits between deliveries: a millisecond, and a
\* millisecond less than the TTL.
SeqClockSteps == {1, IDEMPOTENCY_TTL - 1}
\* The change events of listing l1: published, unpublished, published under
\* another slug, deleted.
SeqBodies ==
    { Body("json", p, 0) :
        p \in { Obj("listings", "INSERT", Published, NullRow),
                Obj("listings", "UPDATE", Draft, OldRow),
                Obj("listings", "UPDATE", Renamed, OldRow),
                Obj("listings", "DELETE", NullRow, Published) } }

InitSeq ==
    /\ env = EnvOf(WebhookSecret, TRUE, TRUE, TRUE, TRUE)
    /\ now = 1
    /\ ticks = 0
    /\ processedEvents = [known |-> << >>, rest |-> << >>]
    /\ index = {}
    /\ req = [r \in SeqDeliveries |-> IdleReq]
    /\ bulk = IdleBulk
    /\ removal = IdleRemoval
    /\ doc = NoDoc
    /\ collection = FALSE
    /\ reindex = IdleReindex

\* The next delivery arrives, correctly signed, once every earlier one has
\* been answered.
SeqPost(r, body) ==
    /\ req[r].pc = "idle"
    /\ \A s \in SeqDeliveries : s < r => req[s].pc = "done"
    /\ LET sig == Hmac(env.SUPABASE_WEBHOOK_SECRET, body)
           h == VerifyStage([ q |-> [IdleReq EXCEPT !.body = body, !.sig = sig,
                                                    !.arrivedAt = now],
                              map |-> processedEvents ])
       IN  /\ req' = [req EXCEPT ![r] = h.q]
           /\ processedEvents' = h.map
    /\ UNCHANGED <<env, now, ticks, index, bulk, removal, doc, collection, reindex>>

SeqTick(d) ==
    /\ ticks < MaxSeqTicks
    /\ now' = now + d
    /\ ticks' = ticks + 1
    /\ UNCHANGED <<env, processedEvents, index, req, bulk, removal, doc, collection, reindex>>

NextSeq ==
    \/ \E r \in SeqDeliveries, body \in SeqBodies : SeqPost(r, body)
    \/ \E r \in SeqDeliveries : SearchReturn(r, FALSE)
    \/ \E r \in SeqDeliveries : FetchReturn(r, FALSE)
    \/ \E d \in SeqClockSteps : SeqTick(d)

SpecSeq == InitSeq /\ [][NextSeq]_vars

\* ------------------------------------------------ deleteListing (SpecRemove)
\* How the await of documents(listingId).delete() ends: with the HTTP status
\* of the engine's answer, 0 standing for an error that has no httpStatus
\* (the request did not get through, or its answer did not).
DeleteStatuses == {200, 404, 503, 0}

\* Faulty variant: a 404 is thrown like any other error.
deleteListing_Strict(httpStatus) ==
    IF httpStatus = 200 THEN "returned" ELSE "thrown"

\* The try and catch of deleteListing: how the call ends for its caller.
deleteListing(httpStatus) ==
    IF httpStatus = 200 THEN "returned"
    ELSE IF httpStatus # 404 THEN "thrown"
    ELSE "returned"

InitRemove ==
    /\ Init
    /\ typesenseEnabled /\ revalidationEnabled

\* A document is put into the collection (by a sync of the listing).
Indexed(id) ==
    /\ removal.pc = "idle" /\ removal.log = << >>
    /\ id \notin index
    /\ index' = index \cup {id}
    /\ UNCHANGED <<env, now, ticks, processedEvents, req, bulk, removal, doc, collection, reindex>>

\* deleteListing(listingId) up to its await.
DeleteListing(listingId) ==
    /\ removal.pc = "idle"
    /\ Len(removal.log) < MaxRemovals
    /\ removal' = [removal EXCEPT !.pc = "delete", !.id = listingId]
    /\ UNCHANGED <<env, now, ticks, processedEvents, index, req, bulk, doc, collection, reindex>>

\* The await ends.  The engine answers 200 when it has removed the document
\* and 404 when it holds none of that id; when the answer is lost (0) the
\* document may or may not have been removed.
DeleteReturn(httpStatus, removed) ==
    /\ removal.pc = "delete"
    /\ httpStatus = 200 => removed
    /\ httpStatus = 404 => removal.id \notin index
    /\ removed => (removal.id \in index /\ httpStatus \in {200, 0})
    /\ index' = IF removed THEN index \ {removal.id} ELSE index
    /\ removal' = [removal EXCEPT
                     !.pc = "idle",
                     !.log = Append(@, [ id |-> removal.id, httpStatus |-> httpStatus,
                                         result |-> deleteListing(httpStatus) ])]
    /\ UNCHANGED <<env, now, ticks, processedEvents, req, bulk, doc, collection, reindex>>

NextRemove ==
    \/ \E id \in BulkIds : Indexed(id)
    \/ \E id \in BulkIds : DeleteListing(id)
    \/ \E httpStatus \in DeleteStatuses, removed \in BOOLEAN : DeleteReturn(httpStatus, removed)

SpecRemove == InitRemove /\ [][NextRemove]_vars

\* ------------------------------------------ transformToDocument (SpecDoc)
\* The value of a column, as JavaScript sees it: undefined (or null), a
\* number, a string or a boolean.
Val(t, n, str, b) == [t |-> t, n |-> n, s |-> str, b |-> b]
Undefined == Val("undefined", 0, "", FALSE)
Num(n) == Val("number", n, "", FALSE)
Str(str) == Val("string", 0, str, FALSE)
Bool(b) == Val("boolean", 0, "", b)

\* Whether x is truthy: 0, '', false, null and undefined are not.
Truthy(x) ==
    CASE x.t = "number" -> x.n # 0
      [] x.t = "string" -> x.s # ""
      [] x.t = "boolean" -> x.b
      [] OTHER -> FALSE

\* x || y
OrElse(x, y) == IF Truthy(x) THEN x ELSE y

\* listing.location: null, or { lat, lng }; in the document an array [lat, lng].
LatLng(lat, lng) == [isNull |-> FALSE, lat |-> lat, lng |-> lng]
NoLatLng == [isNull |-> TRUE, lat |-> 0, lng |-> 0]
\* listing.address: null, or an object of strings.
Address(city, region, state, country) ==
    [isNull |-> FALSE, city |-> city, region |-> region, state |-> state, country |-> country]
NoAddress ==
    [isNull |-> TRUE, city |-> Undefined, region |-> Undefined, state |-> Undefined,
     country |-> Undefined]

\* new Date(text).getTime()
DateGetTime(text) ==
    CASE text = "1970-01-01T00:05:00.000Z" -> 300000
      [] text = "1970-01-01T00:00:01.000Z" -> 1000
      [] OTHER -> 0

\* The rows given to transformToDocument.
ListingRows ==
    { [ id |-> Str("l1"), tenant_id |-> Str("t1"), slug |-> Str("acme-widget"),
        title |-> Str("Acme widget"), status |-> Str("published"),
        description |-> description, excerpt |-> excerpt, category |-> category,
        price |-> price, currency |-> currency, featured |-> featured,
        location |-> location, address |-> address,
        published_at |-> published_at,
        created_at |-> Str("1970-01-01T00:00:01.000Z"),
        updated_at |-> Str("1970-01-01T00:00:01.000Z"),
        view_count |-> view_count ] :
        description \in {Undefined, Str("A widget")},
        excerpt \in {Undefined, Str("widget")},
        category \in {Undefined, Str("tools")},
        price \in {Undefined, Num(0), Num(25)},
        currency \in {Undefined, Str("EUR")},
        featured \in {Undefined, Bool(FALSE), Bool(TRUE)},
        location \in {NoLatLng, LatLng(52, 4)},
        address \in { NoAddress,
                      Address(Str("Leiden"), Str("ZH"), Undefined, Str("NL")),
                      Address(Undefined, Undefined, Str("Ohio"), Undefined) },
        published_at \in {Undefined, Str("1970-01-01T00:05:00.000Z")},
        view_count \in {Undefined, Num(0), Num(7)} }

\* The object literal of lines 64-90.
transformToDocument(listing) ==
    LET address == listing.address
        location == listing.location
        timestamp(column) == IF Truthy(column) THEN Num(DateGetTime(column.s)) ELSE Num(now)
    IN  [ id |-> listing.id,
          tenant_id |-> listing.tenant_id,
          slug |-> listing.slug,
          title |-> listing.title,
          description |-> OrElse(listing.description, Str("")),
          excerpt |-> OrElse(listing.excerpt, Undefined),
          category |-> OrElse(listing.category, Undefined),
          price |-> OrElse(listing.price, Undefined),
          currency |-> OrElse(listing.currency, Str("USD")),
          status |-> listing.status,
          featured |-> OrElse(listing.featured, Bool(FALSE)),
          location |-> IF ~location.isNull THEN LatLng(location.lat, location.lng)
                       ELSE NoLatLng,
          city |-> OrElse(address.city, Undefined),
          state |-> OrElse(OrElse(address.region, address.state), Undefined),
          country |-> OrElse(address.country, Undefined),
          published_at |-> timestamp(listing.published_at),
          created_at |-> timestamp(listing.created_at),
          updated_at |-> timestamp(listing.updated_at),
          view_count |-> OrElse(listing.view_count, Num(0)) ]

InitDoc ==
    /\ env = EnvOf(WebhookSecret, TRUE, TRUE, TRUE, TRUE)
    /\ now = 1
    /\ ticks = 0
    /\ processedEvents = [known |-> << >>, rest |-> << >>]
    /\ index = {}
    /\ req = [r \in Deliveries |-> IdleReq]
    /\ bulk = IdleBulk
    /\ removal = IdleRemoval
    /\ doc \in { [pc |-> "row", row |-> row, document |-> row] : row \in ListingRows }
    /\ collection = FALSE
    /\ reindex = IdleReindex

\* const document = transformToDocument(listing)
Transform ==
    /\ doc.pc = "row"
    /\ doc' = [doc EXCEPT !.pc = "document", !.document = transformToDocument(doc.row)]
    /\ UNCHANGED <<env, now, ticks, processedEvents, index, req, bulk, removal, collection, reindex>>

NextDoc == Transform

SpecDoc == InitDoc /\ [][NextDoc]_vars

\* ---------------------------------------------------- bulk sync (SpecBulk)
\* The listings given to syncListings: up to MaxRows rows, by their ids.
RowLists == UNION { [1..n -> BulkIds] : n \in 0..MaxRows }
\* What the engine says of each document of an import, in order.
VerdictLists == UNION { [1..n -> BOOLEAN] : n \in 0..MaxRows }
\* How the await of documents().import(documents, { action: 'upsert' }) ends:
\* "results": the client returns the engine's per-document results;
\* "ImportError": the client raises on an import in which the engine
\*     rejected a document (the typesense client does so for an array of
\*     documents), the results being carried by the error;
\* "requestFailed": the request itself failed.
ImportOutcomes == {"results", "ImportError", "requestFailed"}

\* The loop of lines 131-141 over the results.
RECURSIVE CountResults(_)
CountResults(results) ==
    IF results = << >> THEN [success |-> 0, failed |-> 0]
    ELSE LET rest == CountResults(Tail(results))
         IN  IF Head(results).success
             THEN [rest EXCEPT !.success = @ + 1]
             ELSE [rest EXCEPT !.failed = @ + 1]

\* syncListings(listings) up to the await of the import.
SyncListings(listings) ==
    /\ bulk.pc = "idle"
    /\ bulk' = [bulk EXCEPT !.pc = "import", !.rows = listings]
    /\ UNCHANGED <<env, now, ticks, processedEvents, index, req, removal, doc, collection, reindex>>

\* The import ends and syncListings runs to its return or its throw.  The
\* engine has upserted the documents it accepted, whatever the client then
\* does with the results.
ImportReturn(verdicts, how) ==
    /\ bulk.pc = "import"
    /\ DOMAIN verdicts = DOMAIN bulk.rows
    /\ how = "ImportError" => \E i \in DOMAIN verdicts : ~verdicts[i]
    /\ how = "requestFailed" => \A i \in DOMAIN verdicts : ~verdicts[i]
    /\ LET results == [i \in DOMAIN verdicts |-> [success |-> verdicts[i]]]
           counts == CountResults(results)
       IN  CASE how = "requestFailed" ->
                  /\ bulk' = [bulk EXCEPT !.pc = "thrown"]
                  /\ index' = index
             [] how = "ImportError" ->
                  /\ bulk' = [bulk EXCEPT !.pc = "thrown", !.answered = TRUE,
                                          !.verdicts = verdicts]
                  /\ index' = index \cup {bulk.rows[i] : i \in {j \in DOMAIN verdicts : verdicts[j]}}
             [] OTHER ->
                  /\ bulk' = [bulk EXCEPT !.pc = "returned", !.answered = TRUE,
                                          !.verdicts = verdicts,
                                          !.success = counts.success,
                                          !.failed = counts.failed]
                  /\ index' = index \cup {bulk.rows[i] : i \in {j \in DOMAIN verdicts : verdicts[j]}}
    /\ UNCHANGED <<env, now, ticks, processedEvents, req, removal, doc, collection, reindex>>

NextBulk ==
    \/ \E listings \in RowLists : SyncListings(listings)
    \/ \E verdicts \in VerdictLists, how \in ImportOutcomes : ImportReturn(verdicts, how)

InitBulk == Init /\ typesenseEnabled /\ revalidationEnabled

SpecBulk == InitBulk /\ [][NextBulk]_vars

\* ------------------------------------------------- reindex (SpecReindex)
\* A call of the request is issued; a call ends.
Issue(calls, name) == Append(calls, [name |-> name, outcome |-> "pending"])
Settle(calls, outcome) == [calls EXCEPT ![Len(calls)].outcome = outcome]

\* Faulty variant: the collection is created whether or not it was found.
initializeCollection_AlwaysCreate(retrieved) == "create"

\* The try and catch of initializeCollection: what follows the retrieve.
initializeCollection(retrieved) == IF retrieved THEN "none" ELSE "create"

\* The answer of the route: c.json(..., status).
ReindexAnswer(status) ==
    [reindex EXCEPT !.pc = "idle", !.status = status]

\* POST /reindex arrives: 400 without the search settings, else the route
\* runs to the retrieve of initializeCollection.
Reindex ==
    /\ reindex.pc = "idle"
    /\ reindex.requests < MaxReindex
    /\ LET started == [reindex EXCEPT !.requests = @ + 1, !.calls = << >>,
                                      !.listings = << >>, !.status = 0,
                                      !.previous = reindex.calls]
       IN  reindex' = IF ~typesenseEnabled
                      THEN [started EXCEPT !.status = 400]
                      ELSE [started EXCEPT !.pc = "retrieve",
                                           !.calls = Issue(@, "retrieve")]
    /\ UNCHANGED <<env, now, ticks, processedEvents, index, req, bulk, removal, doc, collection>>

\* The retrieve ends: it succeeds only for a collection that exists, and
\* fails for one that does not or for any other reason.
RetrieveReturn(retrieved) ==
    /\ reindex.pc = "retrieve"
    /\ retrieved => collection
    /\ LET calls == Settle(reindex.calls, IF retrieved THEN "ok" ELSE "failed")
       IN  reindex' = IF initializeCollection(retrieved) = "create"
                      THEN [reindex EXCEPT !.pc = "create", !.calls = Issue(calls, "create")]
                      ELSE [reindex EXCEPT !.pc = "select", !.calls = Issue(calls, "select")]
    /\ UNCHANGED <<env, now, ticks, processedEvents, index, req, bulk, removal, doc, collection>>

\* The create ends: it succeeds only when there was no collection; its
\* error is caught by the route, which answers 500.
CreateReturn(created) ==
    /\ reindex.pc = "create"
    /\ created => ~collection
    /\ collection' = (collection \/ created)
    /\ LET calls == Settle(reindex.calls, IF created THEN "ok" ELSE "failed")
       IN  reindex' = IF created
                      THEN [reindex EXCEPT !.pc = "select", !.calls = Issue(calls, "select")]
                      ELSE [ReindexAnswer(500) EXCEPT !.calls = calls]
    /\ UNCHANGED <<env, now, ticks, processedEvents, index, req, bulk, removal, doc>>

\* The query of the published listings ends: with an error, which the
\* route throws, or with the rows, which it gives to syncListings.
SelectReturn(listings, error) ==
    /\ reindex.pc = "select"
    /\ LET calls == Settle(reindex.calls, IF error THEN "failed" ELSE "ok")
       IN  IF error
           THEN /\ reindex' = [ReindexAnswer(500) EXCEPT !.calls = calls]
                /\ bulk' = bulk
           ELSE /\ reindex' = [reindex EXCEPT !.pc = "sync", !.listings = listings,
                                              !.calls = Issue(calls, "import")]
                /\ bulk' = [IdleBulk EXCEPT !.pc = "import", !.rows = listings]
    /\ UNCHANGED <<env, now, ticks, processedEvents, index, req, removal, doc, collection>>

\* syncListings has returned or thrown: 200 with the counts, or 500.
ReindexReturn ==
    /\ reindex.pc = "sync"
    /\ bulk.pc \in {"returned", "thrown"}
    /\ LET returned == bulk.pc = "returned"
           calls == Settle(reindex.calls, IF returned THEN "ok" ELSE "failed")
       IN  reindex' = [ReindexAnswer(IF returned THEN 200 ELSE 500) EXCEPT !.calls = calls]
    /\ UNCHANGED <<env, now, ticks, processedEvents, index, req, bulk, removal, doc, collection>>

NextReindex ==
    \/ Reindex
    \/ \E retrieved \in BOOLEAN : RetrieveReturn(retrieved)
    \/ \E created \in BOOLEAN : CreateReturn(created)
    \/ \E listings \in RowLists, error \in BOOLEAN : SelectReturn(listings, error)
    \/ \E verdicts \in VerdictLists, how \in ImportOutcomes : ImportReturn(verdicts, how)
    \/ ReindexReturn

SpecReindex == Init /\ [][NextReindex]_vars

\* =============================================================== claims
\* What a claim says of a delivery q (a record of req).
Arrived(q) == q.pc # "idle"
Finished(q) == q.pc = "done"
\* The signature check is performed: a secret is configured and the header
\* is present and not empty.
SignatureChecked(q) == env.SUPABASE_WEBHOOK_SECRET # "" /\ q.sig.len # 0
\* The header is the hex HMAC-SHA256 of the raw body under the secret.
SignatureMatches(q) == q.sig = Hmac(env.SUPABASE_WEBHOOK_SECRET, q.body)
PassedVerification(q) == SignatureChecked(q) => SignatureMatches(q)
ValidJson(q) == q.body.text = "json"
\* No call to the search adapter and no revalidation request.
NoDownstream(q) == q.search = NoCall /\ q.invalidation = << >>
\* The delivery went past the duplicate check into the dispatcher.
Dispatched(q) == Arrived(q) /\ PassedVerification(q) /\ ValidJson(q) /\ ~q.duplicate
IsListingEvent(q) == q.body.value.json = "object" /\ q.body.value.table = "listings"

\* ---------------------------------------------------------------- C1
\* C1: when a delivery has been dispatched and acknowledged 200, a later
\* delivery of the same payload that arrives less than IDEMPOTENCY_TTL after
\* the first was marked processed is answered 200, success, "Event already
\* processed", in the step of its arrival, and calls neither the search
\* adapter nor the revalidation endpoint, and leaves the ledger as it was.
C1_DuplicateShortCircuits ==
    [][ \A r1, r2 \in Deliveries :
          ( /\ Finished(req[r1]) /\ req[r1].status = 200 /\ ~req[r1].duplicate
            /\ req[r2].pc = "idle" /\ req'[r2].pc # "idle"
            /\ PassedVerification(req'[r2]) /\ ValidJson(req'[r2])
            /\ req'[r2].body.value = req[r1].body.value
            /\ now - req[r1].markedAt < IDEMPOTENCY_TTL )
          => ( /\ Finished(req'[r2])
               /\ req'[r2].status = 200 /\ req'[r2].success
               /\ req'[r2].text = "Event already processed"
               /\ NoDownstream(req'[r2])
               /\ index' = index
               /\ processedEvents' = processedEvents ) ]_vars

\* A listing event was dispatched with both downstream calls and
\* acknowledged; the same payload, delivered again just under the TTL later
\* and in another formatting of the body, was short-circuited.
C1_Witness ==
    \E r1, r2 \in Deliveries :
        /\ Finished(req[r1]) /\ req[r1].status = 200 /\ ~req[r1].duplicate
        /\ req[r1].search # NoCall /\ req[r1].invalidation # << >>
        /\ Finished(req[r2]) /\ req[r2].duplicate
        /\ req[r2].body.value = req[r1].body.value
        /\ req[r2].body # req[r1].body
        /\ req[r2].timestamp = req[r1].markedAt
        /\ now - req[r1].markedAt = IDEMPOTENCY_TTL - 1
        /\ NoDownstream(req[r2])

\* ---------------------------------------------------------------- C2
\* C2: every delivery that passes signature verification and JSON parsing
\* and is not a duplicate is answered 200 with success: true and is marked
\* processed, whatever its downstream calls returned.
C2_DownstreamFailuresNeverReject ==
    \A r \in Deliveries :
        (Finished(req[r]) /\ Dispatched(req[r]))
        => (req[r].status = 200 /\ req[r].success /\ req[r].markedAt # 0)

\* ---------------------------------------------------------------- C3
\* C3: with both adapters enabled, when the search-adapter call of a
\* listings event has failed (an error, or a not-found on delete) the
\* revalidation request of that event has been issued.
C3_FailureIsolation ==
    \A r \in Deliveries :
        ( /\ IsListingEvent(req[r]) /\ typesenseEnabled /\ revalidationEnabled
          /\ req[r].searchOutcome \in {"error", "notfound"} )
        => ( /\ req[r].pc \in {"fetch", "done"}
             /\ Len(req[r].invalidation) >= 2
             /\ req[r].fetchOutcome # "none" )

\* The search call of a listings event threw, the revalidation request was
\* issued and answered, and the event was acknowledged and marked.
C3_Witness ==
    \E r \in Deliveries :
        /\ IsListingEvent(req[r]) /\ req[r].searchOutcome = "error"
        /\ req[r].invalidation # << >> /\ req[r].fetchOutcome = "resolved"
        /\ Finished(req[r]) /\ req[r].status = 200 /\ req[r].success
        /\ MapGet(processedEvents, generateEventId(req[r].body.value)) = req[r].markedAt

\* ---------------------------------------------------------------- C4
\* C4: with a secret configured, a delivery whose signature header is
\* present and is not the HMAC-SHA256 hex digest of the raw body is answered
\* 401, without the ledger being read or written and without any
\* downstream call.
C4_SignatureRejection ==
    \A r \in Deliveries :
        (Arrived(req[r]) /\ SignatureChecked(req[r]) /\ ~SignatureMatches(req[r]))
        => ( /\ Finished(req[r]) /\ req[r].status = 401
             /\ ~req[r].ledgerRead /\ req[r].markedAt = 0
             /\ NoDownstream(req[r]) )

\* ---------------------------------------------------------------- C5
\* C5: with a secret configured, a signature header whose length is not
\* that of a hex SHA-256 digest is answered 401 (never 500).
C5_MalformedSignatureIsInauthentic ==
    \A r \in Deliveries :
        (Arrived(req[r]) /\ SignatureChecked(req[r]) /\ req[r].sig.len # HexDigestLength)
        => (Finished(req[r]) /\ req[r].status = 401)

\* ---------------------------------------------------------------- C6
\* C6: a dispatched listings INSERT or UPDATE whose record is not null and
\* whose status is not "published" calls, with the search adapter enabled,
\* delete with record.id (and so never upsert).
C6_UnpublishAsDelete ==
    \A r \in Deliveries :
        LET payload == req[r].body.value
        IN  ( /\ Dispatched(req[r]) /\ IsListingEvent(req[r]) /\ typesenseEnabled
              /\ payload.type \in {"INSERT", "UPDATE"}
              /\ ~payload.record.isNull /\ payload.record.status # "published" )
            => req[r].search = [op |-> "delete", id |-> payload.record.id]

\* An UPDATE to status "draft" was dispatched and acknowledged, its one
\* search call being the delete of the listing.
C6_Witness ==
    \E r \in Deliveries :
        /\ Finished(req[r]) /\ req[r].status = 200 /\ ~req[r].duplicate
        /\ IsListingEvent(req[r]) /\ req[r].body.value.type = "UPDATE"
        /\ req[r].body.value.record.status = "draft"
        /\ req[r].search = [op |-> "delete", id |-> "l1"]
        /\ req[r].searchOutcome \in {"ok", "notfound"}

\* ---------------------------------------------------------------- C7
\* C7: the one search call of a dispatched listings event (search adapter
\* enabled) is upsert of the record for an INSERT/UPDATE with status
\* "published", delete of old_record.id for a DELETE, and no call at all
\* for an INSERT/UPDATE with a null record or a DELETE with a null
\* old_record.
C7_SearchRouting ==
    \A r \in Deliveries :
        LET payload == req[r].body.value
            insertOrUpdate == payload.type \in {"INSERT", "UPDATE"}
        IN  (Dispatched(req[r]) /\ IsListingEvent(req[r]) /\ typesenseEnabled)
            => /\ (insertOrUpdate /\ ~payload.record.isNull
                     /\ payload.record.status = "published")
                  => req[r].search = [op |-> "upsert", id |-> payload.record.id]
               /\ (payload.type = "DELETE" /\ ~payload.old_record.isNull)
                  => req[r].search = [op |-> "delete", id |-> payload.old_record.id]
               /\ (insertOrUpdate /\ payload.record.isNull) => req[r].search = NoCall
               /\ (payload.type = "DELETE" /\ payload.old_record.isNull)
                  => req[r].search = NoCall

\* A published INSERT was upserted into the index and a DELETE then removed
\* the document by the id of its old_record.
C7_Witness ==
    \E r1, r2 \in Deliveries :
        /\ req[r1].body.value.type = "INSERT" /\ IsListingEvent(req[r1])
        /\ req[r1].search = [op |-> "upsert", id |-> "l1"] /\ req[r1].searchOutcome = "ok"
        /\ req[r2].body.value.type = "DELETE" /\ IsListingEvent(req[r2])
        /\ req[r2].body.value.record.isNull
        /\ req[r2].search = [op |-> "delete", id |-> "l1"] /\ req[r2].searchOutcome = "ok"
        /\ index = {}

\* ---------------------------------------------------------------- C8
\* C8: a delivery that reaches the duplicate check is treated as a duplicate
\* exactly when the ledger holds an entry of its fingerprint less than
\* IDEMPOTENCY_TTL old.  The check leaves the ledger as it is (an expired
\* entry stays until it is overwritten); a delivery that finds an expired
\* entry is dispatched, and when it is acknowledged its entry holds the time
\* of the acknowledgement.
C8_TtlExpiry ==
    [][ \A r \in Deliveries :
          LET eventId == [md5 |-> req'[r].body.value]
              held == eventId \in DOMAIN processedEvents.known
              fresh == held /\ now - processedEvents.known[eventId] < IDEMPOTENCY_TTL
              checked == req[r].pc = "idle" /\ req'[r].ledgerRead
              shortCircuited ==
                  /\ processedEvents' = processedEvents
                  /\ NoDownstream(req'[r])
                  /\ req'[r].text = "Event already processed"
              dispatchedAgain ==
                  /\ req'[r].text # "Event already processed"
                  /\ \/ req'[r].pc \in {"search", "fetch"}
                     \/ (Finished(req'[r]) /\ req'[r].status = 200)
              acknowledged ==
                  /\ req[r].pc # "done" /\ Finished(req'[r])
                  /\ req'[r].status = 200 /\ ~req'[r].duplicate
          IN  /\ checked => (req'[r].duplicate <=> fresh)
              /\ (checked /\ req'[r].duplicate) => shortCircuited
              /\ (checked /\ ~Finished(req'[r])) => processedEvents' = processedEvents
              /\ (checked /\ held /\ ~fresh) => dispatchedAgain
              /\ acknowledged
                 => (req'[r].markedAt = now /\ MapGet(processedEvents', eventId) = now)
      ]_vars

\* A listing event found its entry exactly IDEMPOTENCY_TTL old, was
\* dispatched again with both downstream calls, and its entry now holds the
\* later time.
C8_Witness ==
    \E r1, r2 \in Deliveries :
        /\ r1 # r2 /\ req[r1].body.value = req[r2].body.value
        /\ Finished(req[r1]) /\ req[r1].status = 200 /\ ~req[r1].duplicate
        /\ Finished(req[r2]) /\ req[r2].status = 200 /\ ~req[r2].duplicate
        /\ req[r2].timestamp = req[r1].markedAt
        /\ req[r2].markedAt - req[r2].timestamp = IDEMPOTENCY_TTL
        /\ req[r2].search # NoCall /\ req[r2].invalidation # << >>
        /\ MapGet(processedEvents, generateEventId(req[r2].body.value)) = req[r2].markedAt

\* ---------------------------------------------------------------- C9
\* C9: a delivery whose body is not JSON, and whose signature did not stop
\* it, is answered 400 in the step of its arrival; the ledger is not read
\* and not changed, and nothing is called downstream.
C9_InvalidJsonRejected ==
    [][ \A r \in Deliveries :
          ( /\ req[r].pc = "idle" /\ req'[r].pc # "idle"
            /\ PassedVerification(req'[r]) /\ ~ValidJson(req'[r]) )
          => ( /\ Finished(req'[r]) /\ req'[r].status = 400 /\ ~req'[r].success
               /\ ~req'[r].ledgerRead /\ req'[r].markedAt = 0
               /\ NoDownstream(req'[r])
               /\ processedEvents' = processedEvents /\ index' = index ) ]_vars

\* A body that is no JSON, correctly signed under the configured secret, was
\* answered 400 while the ledger held an entry of an earlier event.
C9_Witness ==
    \E r \in Deliveries :
        /\ Finished(req[r]) /\ ~ValidJson(req[r]) /\ req[r].status = 400
        /\ SignatureChecked(req[r]) /\ SignatureMatches(req[r])
        /\ ~req[r].ledgerRead
        /\ DOMAIN processedEvents.known # {}

\* --------------------------------------------------------------- C10
\* C10: a body that is valid JSON but has no table or no type (the JSON
\* null, a number, an object without these fields) is answered 400 and is
\* not recorded in the ledger.
C10_NormalizerRejectsShapeless ==
    \A r \in Deliveries :
        LET payload == req[r].body.value
        IN  ( /\ Arrived(req[r]) /\ PassedVerification(req[r]) /\ ValidJson(req[r])
              /\ (payload.json # "object" \/ payload.table = "" \/ payload.type = "") )
            => ( /\ Finished(req[r]) /\ req[r].status = 400
                 /\ req[r].markedAt = 0
                 /\ generateEventId(payload) \notin DOMAIN processedEvents.known )

\* --------------------------------------------------------------- C11
\* C11: a dispatched event that is an object whose table is neither
\* "listings" nor "taxonomy_terms" is answered 200 with success: true in the
\* step of its arrival, calls neither the search adapter nor the
\* revalidation endpoint, and is recorded in the ledger (the entry is there
\* for as long as it is not older than the TTL).
C11_UnknownTableNoOp ==
    \A r \in Deliveries :
        LET payload == req[r].body.value
        IN  ( /\ Dispatched(req[r]) /\ payload.json = "object"
              /\ payload.table \notin {"listings", "taxonomy_terms"} )
            => ( /\ Finished(req[r]) /\ req[r].status = 200 /\ req[r].success
                 /\ NoDownstream(req[r])
                 /\ req[r].markedAt # 0
                 /\ (now - req[r].markedAt <= IDEMPOTENCY_TTL)
                    => MapGet(processedEvents, [md5 |-> payload]) >= req[r].markedAt )

\* With every adapter enabled an event of table foo_bar was acknowledged
\* without a downstream call, and its redelivery was a duplicate.
C11_Witness ==
    \E r1, r2 \in Deliveries :
        /\ env.TYPESENSE_API_KEY /\ env.TYPESENSE_HOST
        /\ env.PORTAL_REVALIDATE_URL /\ env.REVALIDATION_SECRET
        /\ req[r1].body.value.table = "foo_bar"
        /\ Finished(req[r1]) /\ req[r1].status = 200 /\ ~req[r1].duplicate
        /\ NoDownstream(req[r1])
        /\ MapGet(processedEvents, [md5 |-> req[r1].body.value]) = req[r1].markedAt
        /\ req[r2].body.value.table = "foo_bar" /\ req[r2].duplicate

\* --------------------------------------------------------------- C12
\* C12: the revalidation request of a dispatched listings event (any type,
\* revalidation configured) carries "/listings", "/" in this order, followed
\* by "/listings/<slug>" exactly when a slug is available, the slug being
\* record.slug when present and old_record.slug otherwise.
C12_ListingPaths ==
    \A r \in Deliveries :
        LET payload == req[r].body.value
            paths == req[r].invalidation
            hasSlug == payload.record.slug # "" \/ payload.old_record.slug # ""
        IN  ( /\ Dispatched(req[r]) /\ IsListingEvent(req[r])
              /\ env.PORTAL_REVALIDATE_URL /\ env.REVALIDATION_SECRET
              /\ req[r].pc \in {"fetch", "done"} )
            => ( /\ Len(paths) = IF hasSlug THEN 3 ELSE 2
                 /\ paths[1] = "/listings" /\ paths[2] = "/"
                 /\ payload.record.slug # ""
                    => paths[3] = "/listings/" \o payload.record.slug
                 /\ (payload.record.slug = "" /\ payload.old_record.slug # "")
                    => paths[3] = "/listings/" \o payload.old_record.slug )

\* A DELETE whose old_record has the slug acme-widget asked for the three
\* paths, and an event with no slug at all asked for the first two.
C12_Witness ==
    \E r1, r2 \in Deliveries :
        /\ IsListingEvent(req[r1]) /\ req[r1].body.value.type = "DELETE"
        /\ req[r1].body.value.record.isNull
        /\ req[r1].body.value.old_record.slug = "acme-widget"
        /\ req[r1].invalidation = <<"/listings", "/", "/listings/acme-widget">>
        /\ req[r1].fetchOutcome = "resolved"
        /\ IsListingEvent(req[r2]) /\ req[r2].invalidation = <<"/listings", "/">>

\* --------------------------------------------------------------- C13
\* C13: a dispatched taxonomy_terms event never calls the search adapter,
\* and its one revalidation request (revalidation configured) carries
\* "/categories", followed by "/categories/<slug>" whenever record or
\* old_record has a slug, also when record is present without a slug and
\* old_record has one.
C13_TaxonomyRouting ==
    \A r \in Deliveries :
        LET payload == req[r].body.value
            paths == req[r].invalidation
            slug == IF payload.record.slug # "" THEN payload.record.slug
                    ELSE payload.old_record.slug
        IN  ( /\ Dispatched(req[r])
              /\ payload.json = "object" /\ payload.table = "taxonomy_terms" )
            => ( /\ req[r].search = NoCall /\ req[r].searchOutcome = "none"
                 /\ ( /\ env.PORTAL_REVALIDATE_URL /\ env.REVALIDATION_SECRET
                      /\ req[r].pc \in {"fetch", "done"} )
                    => ( /\ Len(paths) = IF slug # "" THEN 2 ELSE 1
                         /\ paths[1] = "/categories"
                         /\ slug # "" => paths[2] = "/categories/" \o slug ) )

\* --------------------------------------------------------------- C14
\* C14: while the search call of a delivery is outstanding its revalidation
\* request has not been issued; once the request is issued the search call,
\* if the event made one, has completed (with success, not-found or error).
C14_SearchBeforeInvalidation ==
    \A r \in Deliveries :
        /\ req[r].searchOutcome = "pending"
           => (req[r].pc = "search" /\ req[r].invalidation = << >>
               /\ req[r].fetchOutcome = "none")
        /\ (req[r].invalidation # << >> /\ req[r].search # NoCall)
           => req[r].searchOutcome \in {"ok", "notfound", "error"}

\* The search call of a listings event has thrown and its revalidation
\* request is now outstanding, while another delivery still awaits its
\* search call with no revalidation request issued.
C14_Witness ==
    \E r1, r2 \in Deliveries :
        /\ req[r1].search # NoCall /\ req[r1].searchOutcome = "error"
        /\ req[r1].pc = "fetch" /\ req[r1].fetchOutcome = "pending"
        /\ Len(req[r1].invalidation) = 3
        /\ req[r2].pc = "search" /\ req[r2].invalidation = << >>

\* --------------------------------------------------------------- C16
\* C16: of two deliveries of the identical payload that are in flight at the
\* same time, at most one has issued downstream calls.
C16_OverlapSingleDispatch ==
    \A r1, r2 \in Deliveries :
        ( /\ r1 # r2
          /\ req[r1].body.value = req[r2].body.value
          /\ req[r1].pc \in {"search", "fetch"}
          /\ req[r2].pc \in {"search", "fetch"} )
        => (NoDownstream(req[r1]) \/ NoDownstream(req[r2]))

\* --------------------------------------------------------------- C17
\* C17: the step that marks an event processed leaves an entry of its
\* fingerprint with the current time.  When the ledger holds more than
\* CLEANUP_SIZE entries after the insert, every entry older than the TTL is
\* removed in that step; an entry younger than the TTL is never removed, and
\* with CLEANUP_SIZE entries or fewer no entry is removed.  An entry that
\* stays keeps its time.
C17_LedgerSweep ==
    [][ \A r \in Deliveries :
          LET eventId == [md5 |-> req'[r].body.value]
              before == processedEvents
              after == processedEvents'
              marks == /\ req[r].pc # "done" /\ Finished(req'[r])
                       /\ req'[r].status = 200 /\ ~req'[r].duplicate
              sizeAfterInsert ==
                  Cardinality(DOMAIN before.known \cup {eventId})
                  + SumOver(before.rest, DOMAIN before.rest)
              sweeps == sizeAfterInsert > CLEANUP_SIZE
          IN  marks =>
                /\ eventId \in DOMAIN after.known /\ after.known[eventId] = now
                /\ DOMAIN after.known \subseteq DOMAIN before.known \cup {eventId}
                /\ DOMAIN after.rest \subseteq DOMAIN before.rest
                /\ \A k \in DOMAIN before.known \ {eventId} :
                     LET age == now - before.known[k]
                     IN  /\ (sweeps /\ age > IDEMPOTENCY_TTL) => k \notin DOMAIN after.known
                         /\ (age < IDEMPOTENCY_TTL \/ ~sweeps) => k \in DOMAIN after.known
                         /\ k \in DOMAIN after.known => after.known[k] = before.known[k]
                /\ \A t \in DOMAIN before.rest :
                     LET age == now - t
                     IN  /\ (sweeps /\ age > IDEMPOTENCY_TTL) => t \notin DOMAIN after.rest
                         /\ (age < IDEMPOTENCY_TTL \/ ~sweeps) => t \in DOMAIN after.rest
                         /\ t \in DOMAIN after.rest => after.rest[t] = before.rest[t]
      ]_vars

\* The ledger held an event marked at time 1 and CLEANUP_SIZE other entries;
\* marking another event TTL + 1 later swept all of them and left the new
\* entry.
C17_Witness ==
    \E r1, r2 \in Deliveries :
        /\ Finished(req[r1]) /\ req[r1].markedAt = 1
        /\ Finished(req[r2]) /\ req[r2].markedAt = IDEMPOTENCY_TTL + 2
        /\ now = req[r2].markedAt
        /\ [md5 |-> req[r1].body.value] \notin DOMAIN processedEvents.known
        /\ MapGet(processedEvents, [md5 |-> req[r2].body.value]) = now
        /\ DOMAIN processedEvents.rest = {}

\* --------------------------------------------------------------- C18
\* C18: the search adapter is called only with both TYPESENSE_API_KEY and
\* TYPESENSE_HOST set, the revalidation endpoint only with both
\* PORTAL_REVALIDATE_URL and REVALIDATION_SECRET set.  An adapter that is
\* disabled leaves the other's calls as they are (the search call of a
\* listings event depends on the search settings and the payload alone, its
\* revalidation request on the revalidation settings and the payload alone)
\* and leaves the outcome as it is: the event is answered 200 and marked.
C18_AdapterEnablement ==
    \A r \in Deliveries :
        LET q == req[r]
            payload == q.body.value
            searchOn == env.TYPESENSE_API_KEY /\ env.TYPESENSE_HOST
            revalidationOn == env.PORTAL_REVALIDATE_URL /\ env.REVALIDATION_SECRET
            hasRow == IF payload.type = "DELETE" THEN ~payload.old_record.isNull
                      ELSE payload.type \in {"INSERT", "UPDATE"} /\ ~payload.record.isNull
            routed == payload.json = "object"
                      /\ payload.table \in {"listings", "taxonomy_terms"}
        IN  /\ q.search # NoCall => searchOn
            /\ q.invalidation # << >> => revalidationOn
            /\ (Dispatched(q) /\ IsListingEvent(q) /\ searchOn /\ hasRow)
               => q.search # NoCall
            /\ (Dispatched(q) /\ routed /\ revalidationOn /\ q.pc \in {"fetch", "done"})
               => Len(q.invalidation) >= (IF IsListingEvent(q) THEN 2 ELSE 1)
            /\ (Dispatched(q) /\ routed /\ ~revalidationOn) => q.pc \in {"search", "done"}
            /\ (Dispatched(q) /\ routed /\ Finished(q))
               => (q.status = 200 /\ q.success /\ q.markedAt # 0)

\* With the API key set and the host missing a listings event made no
\* search call, sent its revalidation request and was acknowledged.
C18_Witness ==
    \E r \in Deliveries :
        /\ env.TYPESENSE_API_KEY /\ ~env.TYPESENSE_HOST
        /\ IsListingEvent(req[r]) /\ req[r].body.value.type = "INSERT"
        /\ ~req[r].body.value.record.isNull
        /\ req[r].search = NoCall
        /\ Len(req[r].invalidation) = 3 /\ req[r].fetchOutcome = "rejected"
        /\ Finished(req[r]) /\ req[r].status = 200 /\ req[r].markedAt # 0

\* --------------------------------------------------------------- C19
\* C19: with no SUPABASE_WEBHOOK_SECRET set no delivery is answered 401 or
\* stopped by the verification: whatever its signature header, a delivery
\* goes on to the parsing of its body (400 for a body that is not JSON, the
\* duplicate check otherwise).
C19_NoSecretSkipsVerification ==
    \A r \in Deliveries :
        (env.SUPABASE_WEBHOOK_SECRET = "" /\ Arrived(req[r]))
        => ( /\ req[r].status # 401
             /\ req[r].text \notin {"Invalid signature", "Internal Server Error"}
             /\ ValidJson(req[r]) => req[r].ledgerRead
             /\ ~ValidJson(req[r]) => (Finished(req[r]) /\ req[r].status = 400) )

\* With no secret set, a delivery with a 10-character header and one with
\* the digest of another key were both dispatched and acknowledged.
C19_Witness ==
    \E r1, r2 \in Deliveries :
        /\ env.SUPABASE_WEBHOOK_SECRET = ""
        /\ req[r1].sig = ShortSignature
        /\ Finished(req[r1]) /\ req[r1].status = 200 /\ req[r1].markedAt # 0
        /\ req[r2].sig = Hmac("other-key", req[r2].body)
        /\ req[r2].ledgerRead /\ IsListingEvent(req[r2])
        /\ Finished(req[r2]) /\ req[r2].status = 200 /\ ~req[r2].duplicate

\* --------------------------------------------------------------- C15
\* C15: every delivery that has arrived eventually reaches a terminal state
\* (its answer is sent), also when a downstream system never answers.
C15_BoundedResponse ==
    \A r \in Deliveries : Arrived(req[r]) ~> Finished(req[r])

\* --------------------------------------------------------------- C20
\* C20: a bulk sync of N rows whose import the engine has processed returns
\* (it does not throw) counts with success + failed = N; with exactly one
\* row rejected the counts are N - 1 and 1; and every row the engine
\* accepted is in the collection, those after a rejected row included.
C20_BulkPartialSuccess ==
    LET n == Len(bulk.rows)
        rejected == {i \in 1..n : ~bulk.verdicts[i]}
    IN  bulk.answered
        => ( /\ bulk.pc = "returned"
             /\ bulk.success + bulk.failed = n
             /\ Cardinality(rejected) = 1 => (bulk.success = n - 1 /\ bulk.failed = 1)
             /\ \A i \in 1..n : bulk.verdicts[i] => bulk.rows[i] \in index )

\* --------------------------------------------------------------- C22
\* C22: a dispatched listings event makes at most one call to the search
\* adapter and, with revalidation configured, exactly one revalidation
\* request (none without), whatever the calls return: a call that failed is
\* not made again.
C22_NoSynchronousRetry ==
    \A r \in DOMAIN req :
        LET q == req[r]
            revalidationOn == env.PORTAL_REVALIDATE_URL /\ env.REVALIDATION_SECRET
        IN  (Dispatched(q) /\ IsListingEvent(q))
            => ( /\ q.searchCalls <= 1
                 /\ q.fetchCalls <= 1
                 /\ q.searchCalls = (IF q.search = NoCall THEN 0 ELSE 1)
                 /\ (revalidationOn /\ q.pc \in {"fetch", "done"}) => q.fetchCalls = 1
                 /\ ~revalidationOn => q.fetchCalls = 0
                 /\ (Finished(q) /\ q.searchOutcome = "error") => q.searchCalls = 1
                 /\ (Finished(q) /\ q.fetchOutcome = "rejected") => q.fetchCalls = 1 )

\* Both calls of a listings event failed; each was made once and the event
\* was acknowledged.
C22_Witness ==
    \E r \in DOMAIN req :
        /\ IsListingEvent(req[r]) /\ Finished(req[r]) /\ req[r].status = 200
        /\ req[r].searchOutcome = "error" /\ req[r].fetchOutcome = "rejected"
        /\ req[r].searchCalls = 1 /\ req[r].fetchCalls = 1

\* --------------------------------------------------------------- C24
\* C24: the entry of a fingerprint is created or overwritten only in the
\* step in which a delivery of that payload, not a duplicate, is answered
\* 200 with success, its downstream calls all completed.  A step that ends
\* in 401, 400 or 500, or in a short-circuited duplicate, leaves the ledger
\* as it is; so a payload whose handling ended in 500 is dispatched again
\* when it is delivered again.
C24_LedgerCommitPoint ==
    [][ /\ \A id \in DOMAIN processedEvents'.known :
             ( \/ id \notin DOMAIN processedEvents.known
               \/ processedEvents'.known[id] # processedEvents.known[id] )
             => \E r \in DOMAIN req :
                  /\ [md5 |-> req'[r].body.value] = id
                  /\ req[r].pc # "done" /\ Finished(req'[r])
                  /\ req'[r].status = 200 /\ req'[r].success /\ ~req'[r].duplicate
                  /\ req'[r].searchOutcome # "pending" /\ req'[r].fetchOutcome # "pending"
                  /\ processedEvents'.known[id] = now
        /\ \A r \in DOMAIN req :
             ( /\ req[r].pc # "done" /\ Finished(req'[r])
               /\ (req'[r].status \in {400, 401, 500} \/ req'[r].duplicate) )
             => processedEvents' = processedEvents
        /\ \A r1, r2 \in DOMAIN req :
             ( /\ Finished(req[r1]) /\ req[r1].status = 500
               /\ req[r2].pc = "idle" /\ req'[r2].pc # "idle"
               /\ PassedVerification(req'[r2]) /\ ValidJson(req'[r2])
               /\ req'[r2].body.value = req[r1].body.value
               /\ [md5 |-> req[r1].body.value] \notin DOMAIN processedEvents.known )
             => (req'[r2].ledgerRead /\ ~req'[r2].duplicate)
      ]_vars

\* A body whose handling ended in 500 left no entry; delivered again it was
\* not taken for a duplicate and ended in 500 again, the ledger still
\* without an entry for it.
C24_Witness ==
    \E r1, r2 \in DOMAIN req :
        /\ r1 < r2 /\ req[r1].body.value = req[r2].body.value
        /\ Finished(req[r1]) /\ req[r1].status = 500 /\ req[r1].ledgerRead
        /\ Finished(req[r2]) /\ req[r2].status = 500 /\ req[r2].ledgerRead
        /\ ~req[r2].duplicate /\ req[r2].timestamp = 0
        /\ [md5 |-> req[r2].body.value] \notin DOMAIN processedEvents.known

\* --------------------------------------------------------------- C25
\* C25: with a secret configured, a delivery whose signature header is
\* present and does not match is answered 401 whether or not its body is
\* JSON; only a delivery that the signature check did not reject is
\* answered 400.
C25_VerificationPrecedesNormalization ==
    \A r \in DOMAIN req :
        /\ (Arrived(req[r]) /\ SignatureChecked(req[r]) /\ ~SignatureMatches(req[r]))
           => (req[r].status = 401 /\ req[r].text = "Invalid signature")
        /\ req[r].status = 400 => (PassedVerification(req[r]) /\ ~ValidJson(req[r]))

C26_LastDownstreamWriteWins ==
    \A r1, r2 \in DOMAIN req :
        LET p1 == req[r1].body.value
            p2 == req[r2].body.value
        IN  ( /\ r1 < r2
              /\ IsListingEvent(req[r1]) /\ p1.type \in {"INSERT", "UPDATE"}
              /\ req[r1].search = [op |-> "upsert", id |-> p1.record.id]
              /\ IsListingEvent(req[r2]) /\ p2.type = "DELETE"
              /\ req[r2].search = [op |-> "delete", id |-> p1.record.id]
              /\ \A r3 \in DOMAIN req \ {r1, r2} : req[r3].search = NoCall
              /\ req[r1].searchOutcome = "ok" )
            => ( /\ req[r2].searchOutcome = "notfound" => p1.record.id \in index
                 /\ req[r2].searchOutcome = "ok" => p1.record.id \notin index )

\* An UPDATE with status "published" arrived first and a DELETE of the same
\* listing second; the delete was answered first (not found), the upsert
\* after it; both events are acknowledged and the index holds the listing.
C26_Witness ==
    \E r1, r2 \in DOMAIN req :
        /\ r1 < r2
        /\ IsListingEvent(req[r1]) /\ req[r1].body.value.type = "UPDATE"
        /\ req[r1].body.value.record.status = "published"
        /\ req[r1].search = [op |-> "upsert", id |-> "l1"] /\ req[r1].searchOutcome = "ok"
        /\ IsListingEvent(req[r2]) /\ req[r2].body.value.type = "DELETE"
        /\ req[r2].search = [op |-> "delete", id |-> "l1"]
        /\ req[r2].searchOutcome = "notfound"
        /\ Finished(req[r1]) /\ req[r1].status = 200 /\ ~req[r1].duplicate
        /\ Finished(req[r2]) /\ req[r2].status = 200 /\ ~req[r2].duplicate
        /\ index = {"l1"}

\* --------------------------------------------------------------- C27
\* C27: when the change events of a listing are delivered one at a time,
\* each acknowledged before the next arrives, with the search adapter
\* enabled and no downstream call failing, then once the events delivered
\* so far are all acknowledged the index holds the listing exactly when the
\* last of them was an INSERT or UPDATE with status "published".
C27_SequentialConvergence ==
    \A k \in DOMAIN req :
        LET last == req[k].body.value
        IN  ( /\ \A s \in DOMAIN req : s <= k => Finished(req[s])
              /\ \A s \in DOMAIN req : s > k => req[s].pc = "idle" )
            => ( last.record.id \in index \/ last.old_record.id \in index
                 <=> (last.type \in {"INSERT", "UPDATE"} /\ last.record.status = "published") )

\* --------------------------------------------------------------- C29
\* C29: the duplicate window of a payload runs from the last time a delivery
\* of it was dispatched and marked: a delivery is a duplicate exactly when
\* that time is less than IDEMPOTENCY_TTL ago, and a duplicate leaves the
\* ledger as it is, so a duplicate in between does not renew the window.
C29_DuplicateDoesNotRefresh ==
    [][ \A r \in DOMAIN req :
          LET payload == req'[r].body.value
              marks == { req[s].markedAt :
                           s \in { x \in DOMAIN req :
                                     /\ Finished(req[x]) /\ ~req[x].duplicate
                                     /\ req[x].status = 200
                                     /\ req[x].body.value = payload } }
              lastMark == IF marks = {} THEN 0
                          ELSE CHOOSE m \in marks : \A x \in marks : x <= m
              arrives == req[r].pc = "idle" /\ req'[r].pc # "idle"
          IN  arrives =>
                /\ req'[r].duplicate <=> (lastMark # 0 /\ now - lastMark < IDEMPOTENCY_TTL)
                /\ req'[r].duplicate => processedEvents' = processedEvents
                /\ req'[r].timestamp = lastMark
      ]_vars

\* One payload delivered at t0, t1 and t2 with t1 - t0 < TTL, t2 - t0 >= TTL
\* and t2 - t1 < TTL: the second delivery was a duplicate, the third was
\* dispatched again and acknowledged.
C29_Witness ==
    \E r1, r2, r3 \in DOMAIN req :
        /\ r1 < r2 /\ r2 < r3
        /\ req[r1].body.value = req[r2].body.value
        /\ req[r2].body.value = req[r3].body.value
        /\ Finished(req[r1]) /\ ~req[r1].duplicate /\ req[r1].status = 200
        /\ Finished(req[r2]) /\ req[r2].duplicate
        /\ Finished(req[r3]) /\ ~req[r3].duplicate /\ req[r3].status = 200
        /\ req[r3].search # NoCall /\ req[r3].invalidation # << >>
        /\ req[r2].arrivedAt - req[r1].markedAt < IDEMPOTENCY_TTL
        /\ req[r3].arrivedAt - req[r1].markedAt >= IDEMPOTENCY_TTL
        /\ req[r3].arrivedAt - req[r2].arrivedAt < IDEMPOTENCY_TTL
        /\ req[r3].timestamp = req[r1].markedAt

\* --------------------------------------------------------------- C21
\* C21: deleteListing returns normally when the engine has removed the
\* document (200) and when it answers not-found (404), and throws for any
\* other error.  After a call that returned the index is without the
\* document, so of two calls in a row for one id that the engine answers,
\* both return, the second on a 404.
C21_DeleteTolerantOfAbsence ==
    LET log == removal.log
        answered(i) == log[i].httpStatus \in {200, 404}
    IN  /\ \A i \in DOMAIN log :
             log[i].result = IF answered(i) THEN "returned" ELSE "thrown"
        /\ (removal.pc = "idle" /\ log # << >> /\ log[Len(log)].result = "returned")
           => log[Len(log)].id \notin index
        /\ \A i \in DOMAIN log :
             (i + 1 \in DOMAIN log /\ log[i + 1].id = log[i].id /\ answered(i) /\ answered(i + 1))
             => ( /\ log[i].result = "returned" /\ log[i + 1].result = "returned"
                  /\ log[i + 1].httpStatus = 404 )

\* The document l1 was deleted twice in a row: the first call removed it,
\* the second was answered 404, both returned; a third call, answered 503,
\* threw.
C21_Witness ==
    /\ Len(removal.log) = 3
    /\ removal.log[1] = [id |-> "l1", httpStatus |-> 200, result |-> "returned"]
    /\ removal.log[2] = [id |-> "l1", httpStatus |-> 404, result |-> "returned"]
    /\ removal.log[3] = [id |-> "l1", httpStatus |-> 503, result |-> "thrown"]
    /\ "l1" \notin index

\* --------------------------------------------------------------- C23
\* C23: in the document of a listing row each of excerpt, category, price,
\* location, city, state and country holds the row's value when the row has
\* one (a price of 0 included) and is left out when it has none; currency
\* is "USD", view_count 0 and featured false when the row has none; and no
\* other field holds a default: it is the row's value, converted, or is
\* left out.
C23_RowToDocument ==
    doc.pc = "document" =>
        LET row == doc.row
            d == doc.document
            address == row.address
            converted(column) ==
                IF column = Undefined THEN Undefined ELSE Num(DateGetTime(column.s))
        IN  /\ d.excerpt = row.excerpt
            /\ d.category = row.category
            /\ d.price = row.price
            /\ d.location = row.location
            /\ d.city = address.city
            /\ d.state = (IF address.region # Undefined THEN address.region ELSE address.state)
            /\ d.country = address.country
            /\ d.currency = (IF row.currency = Undefined THEN Str("USD") ELSE row.currency)
            /\ d.view_count = (IF row.view_count = Undefined THEN Num(0) ELSE row.view_count)
            /\ d.featured = (IF row.featured = Undefined THEN Bool(FALSE) ELSE row.featured)
            /\ d.id = row.id /\ d.tenant_id = row.tenant_id /\ d.slug = row.slug
            /\ d.title = row.title /\ d.status = row.status
            /\ d.description = row.description
            /\ d.published_at = converted(row.published_at)
            /\ d.created_at = converted(row.created_at)
            /\ d.updated_at = converted(row.updated_at)

\* --------------------------------------------------------------- C30
\* C30: a reindex request with the search settings present retrieves the
\* collection, creates it only when the retrieve failed (so not when the
\* collection is found, as at a second reindex), then queries the published
\* listings and bulk-upserts exactly those rows, in this order; when the
\* create or the query fails no bulk upsert is issued and the answer is
\* 500.  Without the search settings the answer is 400 and no call is made.
C30_ReindexSequencing ==
    LET calls == reindex.calls
        names == [i \in DOMAIN calls |-> calls[i].name]
        searchOn == env.TYPESENSE_API_KEY /\ env.TYPESENSE_HOST
        IsPrefix(a, b) == Len(a) <= Len(b) /\ \A i \in DOMAIN a : a[i] = b[i]
        answered == reindex.pc = "idle" /\ reindex.requests > 0
        has(name, outcome) == \E i \in DOMAIN calls :
                                  calls[i].name = name /\ calls[i].outcome = outcome
        issued(name) == \E i \in DOMAIN calls : calls[i].name = name
    IN  /\ ~searchOn
           => ( /\ calls = << >> /\ bulk = IdleBulk /\ ~collection /\ index = {}
                /\ answered => reindex.status = 400 )
        /\ searchOn
           => ( /\ \/ IsPrefix(names, <<"retrieve", "select", "import">>)
                   \/ IsPrefix(names, <<"retrieve", "create", "select", "import">>)
                /\ issued("create") => calls[1].outcome = "failed"
                /\ (Len(calls) >= 2 /\ calls[1].outcome = "ok") => names[2] = "select"
                /\ issued("select") => (has("retrieve", "ok") \/ has("create", "ok"))
                /\ issued("import")
                   => (has("select", "ok") /\ bulk.rows = reindex.listings)
                /\ (has("create", "failed") \/ has("select", "failed"))
                   => (~issued("import") /\ answered /\ reindex.status = 500)
                /\ answered => reindex.status \in {200, 500}
                /\ (answered /\ reindex.status = 200) => has("import", "ok") )

\* The first reindex found no collection, created it and upserted the rows;
\* the second found the collection and upserted without creating it.
C30_Witness ==
    /\ reindex.requests = 2 /\ reindex.pc = "idle" /\ reindex.status = 200
    /\ reindex.previous =
         << [name |-> "retrieve", outcome |-> "failed"], [name |-> "create", outcome |-> "ok"],
            [name |-> "select", outcome |-> "ok"], [name |-> "import", outcome |-> "ok"] >>
    /\ reindex.calls =
         << [name |-> "retrieve", outcome |-> "ok"],
            [name |-> "select", outcome |-> "ok"], [name |-> "import", outcome |-> "ok"] >>
    /\ collection
    /\ Len(reindex.listings) = 2 /\ index = {"l1", "l2"}

====
